---- MODULE Spec2Model ----
(***************************************************************************)
(* Model of the photo-to-cartoon orchestrator.                             *)
(*                                                                         *)
(* Two server variants exist in the repository and one is deployed at a    *)
(* time:                                                                   *)
(*   "a1111" : orchestrator/src/index.ts, synchronous img2img REST call.   *)
(*   "comfy" : the graph-job server (unnamed/part_000, lines 330-576),     *)
(*             which queues a workflow and waits on a WebSocket.           *)
(*                                                                         *)
(* A Node.js handler runs without interleaving between two awaits, so one  *)
(* action is one synchronous stretch of a handler: from the arrival of the *)
(* request (or of an awaited answer, a channel event, a timer) up to the   *)
(* next await or to the end of the handler.                                *)
(***************************************************************************)
EXTENDS Naturals, Integers, Sequences, FiniteSets, TLC

\* ------------------------------------------------------------------ bounds
\* Number of HTTP requests the run may contain (they overlap freely).
MaxReqs == 2
\* Number of /auth calls of the browser client that may be unanswered at once.
MaxAuthInFlight == 2
\* Cap on the /generate calls of the browser client that may be unanswered at
\* once (the client code has no such number; the cap only ends exploration).
MaxGenInFlight == 2

Reqs == 1..MaxReqs

\* --------------------------------------------------------- configuration
Variants == {"a1111", "comfy"}

\* The configured shared secret (the default of the environment variable).
FAMILY_PIN == "1234"

\* Presented secrets: the configured one, another one, and none at all
\* (header or body field absent: undefined in the code).
NoPin == "undefined"
Pins == {"1234", "0000", NoPin}

\* multer's limits.fileSize, in MB (10 * 1024 * 1024 bytes).
FileSizeLimitMB == 10

\* Uploads: no file part, or a file with a content type and a size in MB.
NoFile == [present |-> FALSE]
Mimes == {[type |-> "image", subtype |-> "png"],
          [type |-> "text", subtype |-> "plain"]}
SizesMB == {1, 11}
Uploads == {NoFile} \cup
           {[present |-> TRUE, mime |-> m, size |-> s] : m \in Mimes, s \in SizesMB}

\* Error details a backend can report (status text / error body).
ErrDetails == {"E1", "E2"}

\* ------------------------------------------------------------------ state
VARIABLES
    variant,    \* the deployed server variant
    inp,        \* inp[r]: the request as received, or NoReq before arrival
    pc,         \* pc[r]: where the handler of request r stands
    resp,       \* resp[r]: the response sent ([status |-> 0] while none)
    files,      \* the temp directory: set of existing paths
    created,    \* created[r]: temp files created for r
    unlinked,   \* unlinked[r]: successful deletions of a temp file of r
    unlinkErr,  \* unlinkErr[r]: a deletion attempted for r has failed
    calls,      \* calls[r]: requests made to the inference backend for r
    submits,    \* submits[r]: generation jobs submitted for r
    outcome,    \* outcome[r]: what the backend produced for r
    ws,         \* ws[r]: notification channel of r's Job Waiter
    timer,      \* timer[r]: the 2 minute timeout of r's Job Waiter
    wait,       \* wait[r]: state of the promise of waitForCompletion
    job,        \* job[r]: the job of r inside the backend
    evt,        \* evt[r]: the completion event of r's job
    ignored,    \* ignored[r]: r's waiter, still listening, has ignored a message
    \* -- the style selection of one /generate request, followed on its own
    greq,       \* the request: its PIN, upload and style field, or NoReq
    payload,    \* the prompt pair sent to the backend for it, or NoPayload
    gtmp,       \* its temp file exists
    gans,       \* the backend's answer to it, or NoAnswer
    gresp,      \* the response sent for it, or NoResp
    gbytes,     \* the bytes of that response's binary body
    gunlinkErr, \* a deletion of its temp file has failed
    \* -- the browser client (PhotoTransformer), its React state
    step,           \* "auth" | "upload" | "generating" | "result"
    pin,            \* the PIN typed into the input
    pinError,
    selectedFile,   \* the chosen file, or Null
    preview,        \* object URL of the chosen file, or Null
    style,          \* "anime" | "cartoon"
    resultUrl,      \* object URL of the result, or Null
    isLoading,
    error,          \* the error message shown, or Null
    authReqs,       \* the /auth requests of the client still in flight
    genReqs,        \* the /generate requests of the client still in flight
    acceptedPins    \* the PIN values to which /auth has answered OK so far

serverVars == <<variant, inp, pc, resp, files, created, unlinked, unlinkErr, calls,
                submits, outcome, ws, timer, wait, job, evt, ignored>>
styleVars == <<greq, payload, gtmp, gans, gresp, gbytes, gunlinkErr>>
uiVars == <<step, pin, pinError, selectedFile, preview, style, resultUrl,
            isLoading, error, authReqs, genReqs, acceptedPins>>
vars == <<serverVars, styleVars, uiVars>>

\* What a server step leaves alone.
outsideVars == <<styleVars, uiVars>>

NoReq == [ep |-> "none"]
NoResp == [status |-> 0, body |-> "none", ctype |-> "none", cache |-> "none"]

\* res.status(n).json(...): a JSON body, no cache header.
Json(status, body) ==
    [status |-> status, body |-> body, ctype |-> "application/json", cache |-> "none"]

\* The successful answer of the synchronous REST variant: res.set("Content-Type",
\* "image/png") and res.send; no cache header is set.
ImageA1111(body) ==
    [status |-> 200, body |-> body, ctype |-> "image/png", cache |-> "none"]

\* The successful answer of the graph-job variant: Content-Type, Cache-Control
\* (and Pragma: no-cache), then res.send.
ImageComfy(body) ==
    [status |-> 200, body |-> body, ctype |-> "image/png",
     cache |-> "no-store, no-cache, must-revalidate"]

\* Temp paths: the name multer gives the upload, and that name with the
\* extension appended.
TmpPath(r) == <<r, "">>
ExtPath(r) == <<r, ".jpg">>

\* ------------------------------------------------------------- Auth Gate
\* A gate that remembers a successful POST /auth and lets every later request
\* through.
authMiddleware_session(p) ==
    \/ p = FAMILY_PIN
    \/ \E q \in Reqs : inp[q].ep = "auth" /\ resp[q].status = 200

\* authMiddleware / the inline checks: strict equality with the configured PIN.
authMiddleware(p) == p = FAMILY_PIN

\* ----------------------------------------------------- upload middleware
\* multer's fileFilter of the graph-job server: file.mimetype.startsWith("image/").
fileFilter(file) == file.mime.type = "image"

\* upload.single("image"): what multer does with the upload of a request.
\*   "nofile" : no file part, req.file stays undefined
\*   "filter" : fileFilter refused the file, next(err), nothing is stored
\*   "limit"  : the file exceeded limits.fileSize; multer removes the partial
\*              file it wrote and calls next(err)
\*   "stored" : the file is on disk under TmpPath
upload(v, u) ==
    IF ~u.present THEN "nofile"
    ELSE IF v = "comfy" /\ ~fileFilter(u) THEN "filter"
    ELSE IF u.size > FileSizeLimitMB THEN "limit"
    ELSE "stored"

\* Express' default error handler answers an error passed to next() that has
\* no status with 500 and its own error page.
ExpressError ==
    [status |-> 500, body |-> "express-error-page", ctype |-> "text/html", cache |-> "none"]

\* An exception that escapes an async handler: depending on the Express major
\* version the request stays unanswered (4.x: unhandled rejection) or goes to
\* the default error handler (5.x).
UncaughtResponses == {NoResp, ExpressError}

\* ---------------------------------------------------------------- Init
Null == "null"
NoPayload == [positive |-> "none", negative |-> "none"]
NoAnswer == [kind |-> "none"]

Init ==
    /\ greq = [ep |-> "none"]
    /\ payload = NoPayload
    /\ gtmp = FALSE
    /\ gans = NoAnswer
    /\ gresp = NoResp
    /\ gbytes = <<>>
    /\ gunlinkErr = FALSE
    /\ step = "auth"
    /\ pin = ""
    /\ pinError = ""
    /\ selectedFile = Null
    /\ preview = Null
    /\ style = "anime"
    /\ resultUrl = Null
    /\ isLoading = FALSE
    /\ error = Null
    /\ authReqs = <<>>
    /\ genReqs = <<>>
    /\ acceptedPins = {}
    /\ variant \in Variants
    /\ inp = [r \in Reqs |-> NoReq]
    /\ pc = [r \in Reqs |-> "idle"]
    /\ resp = [r \in Reqs |-> NoResp]
    /\ files = {}
    /\ created = [r \in Reqs |-> 0]
    /\ unlinked = [r \in Reqs |-> 0]
    /\ unlinkErr = [r \in Reqs |-> FALSE]
    /\ calls = [r \in Reqs |-> 0]
    /\ submits = [r \in Reqs |-> 0]
    /\ outcome = [r \in Reqs |-> "none"]
    /\ ws = [r \in Reqs |-> "none"]
    /\ timer = [r \in Reqs |-> "none"]
    /\ wait = [r \in Reqs |-> "none"]
    /\ job = [r \in Reqs |-> "none"]
    /\ evt = [r \in Reqs |-> "none"]
    /\ ignored = [r \in Reqs |-> FALSE]

\* Requests are numbered in order of arrival.
Arrives(r) == pc[r] = "idle" /\ (r > 1 => pc[r - 1] # "idle")

waiterVars == <<ws, timer, wait, job, evt, ignored>>
fsVars == <<files, created, unlinked, unlinkErr>>

\* ------------------------------------------------------------ POST /auth
\* Both variants: compare the body's pin, answer at once.
PostAuth(r, p) ==
    /\ Arrives(r)
    /\ inp' = [inp EXCEPT ![r] = [ep |-> "auth", pin |-> p, upload |-> NoFile]]
    /\ resp' = [resp EXCEPT ![r] =
                  IF authMiddleware(p) THEN Json(200, "success")
                  ELSE Json(401, "Invalid PIN")]
    /\ pc' = [pc EXCEPT ![r] = "done"]
    /\ UNCHANGED <<variant, calls, submits, outcome>>
    /\ UNCHANGED fsVars
    /\ UNCHANGED waiterVars
    /\ UNCHANGED outsideVars

\* ------------------------------------------------------------ GET /health
\* What the probe of the backend can end with: an OK answer, a non-OK answer,
\* or no answer at all (the fetch throws).
ProbeAnswers == {"up", "non-ok", "unreachable"}

\* Express's answer to a path for which no route is registered.
NotFound == [status |-> 404, body |-> "Cannot GET /health", ctype |-> "text/html",
             cache |-> "none"]

\* GET /health.  The synchronous REST variant starts a probe of the backend's
\* model list.  The graph-job server registers no /health route (its only GET
\* route is "/"), so Express answers 404 at once.
GetHealth(r) ==
    /\ Arrives(r)
    /\ inp' = [inp EXCEPT ![r] = [ep |-> "health", pin |-> NoPin, upload |-> NoFile]]
    /\ IF variant = "a1111"
       THEN /\ calls' = [calls EXCEPT ![r] = 1]
            /\ pc' = [pc EXCEPT ![r] = "awaitProbe"]
            /\ UNCHANGED resp
       ELSE /\ resp' = [resp EXCEPT ![r] = NotFound]
            /\ pc' = [pc EXCEPT ![r] = "done"]
            /\ UNCHANGED calls
    /\ UNCHANGED <<variant, submits, outcome>>
    /\ UNCHANGED fsVars
    /\ UNCHANGED waiterVars
    /\ UNCHANGED outsideVars

\* The probe of the synchronous REST variant ends: 200 "ok" on an OK answer,
\* 503 "error" otherwise.
HealthResponse(r, o) ==
    /\ pc[r] = "awaitProbe"
    /\ outcome' = [outcome EXCEPT ![r] = o]
    /\ resp' = [resp EXCEPT ![r] =
                  CASE o = "up" -> Json(200, "ok: connected")
                    [] o = "non-ok" -> Json(503, "error: not responding")
                    [] o = "unreachable" -> Json(503, "error: not connected")]
    /\ pc' = [pc EXCEPT ![r] = "done"]
    /\ UNCHANGED <<variant, inp, calls, submits>>
    /\ UNCHANGED fsVars
    /\ UNCHANGED waiterVars
    /\ UNCHANGED outsideVars

\* GET / of the graph-job server: answers 200 "ok" without asking the backend.
GetRoot(r) ==
    /\ variant = "comfy"
    /\ Arrives(r)
    /\ inp' = [inp EXCEPT ![r] = [ep |-> "root", pin |-> NoPin, upload |-> NoFile]]
    /\ resp' = [resp EXCEPT ![r] = Json(200, "ok")]
    /\ pc' = [pc EXCEPT ![r] = "done"]
    /\ UNCHANGED <<variant, calls, submits, outcome>>
    /\ UNCHANGED fsVars
    /\ UNCHANGED waiterVars
    /\ UNCHANGED outsideVars

\* ------------------------------------------------------ temp-file deletion
\* fs.unlinkSync(path) as the synchronous REST variant calls it: the file is
\* removed when the call succeeds (ok); when it fails the call throws and the
\* file stays.
unlinkSync(fs, path, ok) == IF ok THEN fs \ {path} ELSE fs

\* A cleanup that forgets the unlink.
cleanupFile_skip(fs, path, ok) == fs

\* cleanupFile(filePath) of the graph-job server: unlink when the file exists,
\* swallow any error.
cleanupFile(fs, path, ok) == IF path \in fs /\ ok THEN fs \ {path} ELSE fs

\* The generic failure bodies of the two variants.
GenericFailure(v) ==
    IF v = "a1111"
    THEN Json(500, "Generation failed. Is Automatic1111 running with --api flag?")
    ELSE Json(500, "Generation failed")

\* The answers of the backend to a call.
BackendFailures == {"unreachable", "malformed"} \cup ErrDetails

\* --------------------------------- POST /generate, synchronous REST variant
\* upload.single("image") runs first, then the handler: PIN check, file
\* check, read the file and call img2img.
GenerateA1111(r, p, u) ==
    /\ variant = "a1111"
    /\ Arrives(r)
    /\ inp' = [inp EXCEPT ![r] = [ep |-> "generate", pin |-> p, upload |-> u]]
    /\ LET m == upload(variant, u)
           sent == m = "stored" /\ authMiddleware(p)
       IN /\ files' = IF m = "stored" THEN files \cup {TmpPath(r)} ELSE files
          /\ created' = [created EXCEPT ![r] = IF m \in {"stored", "limit"} THEN 1 ELSE 0]
          /\ unlinked' = [unlinked EXCEPT ![r] = IF m = "limit" THEN 1 ELSE 0]
          /\ resp' = [resp EXCEPT ![r] =
                IF m \in {"filter", "limit"} THEN ExpressError
                ELSE IF ~authMiddleware(p) THEN Json(401, "Unauthorized")
                ELSE IF m = "nofile" THEN Json(400, "No image provided")
                ELSE NoResp]
          /\ calls' = [calls EXCEPT ![r] = IF sent THEN 1 ELSE 0]
          /\ submits' = [submits EXCEPT ![r] = IF sent THEN 1 ELSE 0]
          /\ pc' = [pc EXCEPT ![r] = IF sent THEN "awaitA1111" ELSE "done"]
    /\ UNCHANGED <<variant, unlinkErr, outcome>>
    /\ UNCHANGED waiterVars
    /\ UNCHANGED outsideVars

\* The rest of the handler, once img2img has answered (o) or the call has
\* failed.  u1 and u2 tell whether the unlinkSync of line 111 and the one of
\* the catch block succeed.
A1111Response(r, o, u1, u2) ==
    /\ pc[r] = "awaitA1111"
    /\ LET path == TmpPath(r)
           parsed == o \in {"empty", "image"}
           fs1 == IF parsed THEN unlinkSync(files, path, u1) ELSE files
           thrown == ~parsed \/ ~u1 \/ o = "empty"
           retry == thrown /\ path \in fs1
           fs2 == IF retry THEN unlinkSync(fs1, path, u2) ELSE fs1
           escaped == retry /\ ~u2
       IN /\ (~parsed => u1) /\ (~retry => u2)
          /\ files' = fs2
          /\ unlinked' = [unlinked EXCEPT ![r] = IF fs2 # files THEN @ + 1 ELSE @]
          /\ unlinkErr' = [unlinkErr EXCEPT ![r] = (parsed /\ ~u1) \/ (retry /\ ~u2)]
          /\ IF escaped
             THEN /\ \E e \in UncaughtResponses : resp' = [resp EXCEPT ![r] = e]
                  /\ pc' = [pc EXCEPT ![r] = "crashed"]
             ELSE /\ resp' = [resp EXCEPT ![r] =
                        IF thrown THEN GenericFailure(variant)
                        ELSE ImageA1111("image")]
                  /\ pc' = [pc EXCEPT ![r] = "done"]
    /\ outcome' = [outcome EXCEPT ![r] = o]
    /\ UNCHANGED <<variant, inp, created, calls, submits>>
    /\ UNCHANGED waiterVars
    /\ UNCHANGED outsideVars

\* --------------------------------------- POST /generate, graph-job variant
\* authMiddleware, then upload.single("image"), then the handler up to the
\* await of queueWorkflow: file check, rename with the extension (renameOk
\* tells whether fs.renameSync succeeds; it stands before the try block),
\* createWorkflow and the POST of the job to the backend's queue.
GenerateComfy(r, p, u, renameOk) ==
    /\ variant = "comfy"
    /\ Arrives(r)
    /\ inp' = [inp EXCEPT ![r] = [ep |-> "generate", pin |-> p, upload |-> u]]
    /\ LET m == IF authMiddleware(p) THEN upload(variant, u) ELSE "unauthorized"
           sent == m = "stored" /\ renameOk
       IN /\ (m # "stored" => renameOk)
          /\ files' = IF m # "stored" THEN files
                      ELSE IF renameOk THEN files \cup {ExtPath(r)}
                      ELSE files \cup {TmpPath(r)}
          /\ created' = [created EXCEPT ![r] = IF m \in {"stored", "limit"} THEN 1 ELSE 0]
          /\ unlinked' = [unlinked EXCEPT ![r] = IF m = "limit" THEN 1 ELSE 0]
          /\ calls' = [calls EXCEPT ![r] = IF sent THEN 1 ELSE 0]
          /\ submits' = [submits EXCEPT ![r] = IF sent THEN 1 ELSE 0]
          /\ IF m = "stored" /\ ~renameOk
             THEN /\ \E e \in UncaughtResponses : resp' = [resp EXCEPT ![r] = e]
                  /\ pc' = [pc EXCEPT ![r] = "crashed"]
             ELSE /\ resp' = [resp EXCEPT ![r] =
                        IF m = "unauthorized" THEN Json(401, "Invalid PIN")
                        ELSE IF m \in {"filter", "limit"} THEN ExpressError
                        ELSE IF m = "nofile" THEN Json(400, "No image uploaded")
                        ELSE NoResp]
                  /\ pc' = [pc EXCEPT ![r] = IF sent THEN "awaitQueue" ELSE "done"]
    /\ UNCHANGED <<variant, unlinkErr, outcome>>
    /\ UNCHANGED waiterVars
    /\ UNCHANGED outsideVars

\* The finally block of the graph-job handler: cleanupFile(newPath) (ok: the
\* unlink succeeds), after which the handler has returned.
Finally(r, ok) ==
    /\ files' = cleanupFile(files, ExtPath(r), ok)
    /\ unlinked' = [unlinked EXCEPT ![r] =
                      IF cleanupFile(files, ExtPath(r), ok) # files THEN @ + 1 ELSE @]
    /\ unlinkErr' = [unlinkErr EXCEPT ![r] = ExtPath(r) \in files /\ ~ok]
    /\ pc' = [pc EXCEPT ![r] = "done"]

\* The catch block followed by the finally block: answer 500 with the generic
\* message, then clean up.
FailAndCleanup(r, ok) ==
    /\ resp' = [resp EXCEPT ![r] = GenericFailure(variant)]
    /\ Finally(r, ok)

\* queueWorkflow returns or throws.  On a job identifier the handler enters
\* waitForCompletion: a new WebSocket starts connecting, the timeout is armed,
\* the handlers are registered and the handler awaits the promise.
QueueResponse(r, o, ok) ==
    /\ pc[r] = "awaitQueue"
    /\ IF o = "accepted"
       THEN /\ ok
            /\ job' = [job EXCEPT ![r] = "queued"]
            /\ ws' = [ws EXCEPT ![r] = "connecting"]
            /\ timer' = [timer EXCEPT ![r] = "armed"]
            /\ wait' = [wait EXCEPT ![r] = "pending"]
            /\ calls' = [calls EXCEPT ![r] = @ + 1]
            /\ pc' = [pc EXCEPT ![r] = "listening"]
            /\ UNCHANGED <<resp, outcome>>
            /\ UNCHANGED fsVars
       ELSE /\ outcome' = [outcome EXCEPT ![r] = o]
            /\ FailAndCleanup(r, ok)
            /\ UNCHANGED <<created, calls, job, ws, timer, wait>>
    /\ UNCHANGED <<variant, inp, submits, evt, ignored>>
    /\ UNCHANGED outsideVars

\* The channel's connection is established.
WsOpen(r) ==
    /\ ws[r] = "connecting"
    /\ ws' = [ws EXCEPT ![r] = "open"]
    /\ UNCHANGED <<variant, inp, pc, resp, calls, submits, outcome, timer, wait,
                   job, evt, ignored>>
    /\ UNCHANGED fsVars
    /\ UNCHANGED outsideVars

\* The backend finishes the job and emits its completion event, which reaches
\* the channels that are open at that moment.
BackendExecuted(r) ==
    /\ job[r] = "queued"
    /\ job' = [job EXCEPT ![r] = "done"]
    /\ evt' = [evt EXCEPT ![r] = IF ws[r] = "open" THEN "sent" ELSE "lost"]
    /\ UNCHANGED <<variant, inp, pc, resp, calls, submits, outcome, ws, timer,
                   wait, ignored>>
    /\ UNCHANGED fsVars
    /\ UNCHANGED outsideVars

\* Messages on the channel: unparseable text, or a JSON object with a type
\* and possibly a data object carrying a prompt_id.
MsgTypes == {"executed", "progress"}
Messages ==
    {[parses |-> FALSE]} \cup
    {[parses |-> TRUE, type |-> t, hasData |-> FALSE] : t \in MsgTypes} \cup
    {[parses |-> TRUE, type |-> t, hasData |-> TRUE, prompt_id |-> j] :
        t \in MsgTypes, j \in Reqs}

\* A test that forgets to compare the job identifier.
matches_anyJob(m, promptId) ==
    /\ m.parses
    /\ m.type = "executed"
    /\ m.hasData

\* The test of the message handler (line 472); a message that does not parse,
\* or an "executed" message without data, throws inside the try and is
\* swallowed by the catch.
matches(m, promptId) ==
    /\ m.parses
    /\ m.type = "executed"
    /\ m.hasData
    /\ m.prompt_id = promptId

\* The completion event the backend emits for the job of request r: it is on
\* the channel only after the backend has sent it.
IsCompletionOf(m, r) ==
    /\ m.parses
    /\ m.type = "executed"
    /\ m.hasData
    /\ m.prompt_id = r

\* A message handler that starts the history fetch without closing the
\* channel.
OnMessage_noClose(r, m) ==
    /\ pc[r] = "listening"
    /\ ws[r] = "open"
    /\ IsCompletionOf(m, r) => evt[r] = "sent"
    /\ IF matches(m, r)
       THEN /\ timer' = [timer EXCEPT ![r] = "cleared"]
            /\ evt' = [evt EXCEPT ![r] = IF IsCompletionOf(m, r) THEN "delivered" ELSE @]
            /\ calls' = [calls EXCEPT ![r] = @ + 1]
            /\ pc' = [pc EXCEPT ![r] = "awaitHistory"]
            /\ ignored' = [ignored EXCEPT ![r] = FALSE]
            /\ UNCHANGED ws
       ELSE /\ ignored' = [ignored EXCEPT ![r] = TRUE]
            /\ UNCHANGED <<timer, ws, evt, calls, pc>>
    /\ UNCHANGED <<variant, inp, resp, submits, outcome, wait, job>>
    /\ UNCHANGED fsVars
    /\ UNCHANGED outsideVars

\* ws.on("message"): on the completion event of the own job clear the
\* timeout, close the channel and start fetching the history; anything else
\* is ignored.
OnMessage(r, m) ==
    /\ pc[r] = "listening"
    /\ ws[r] = "open"
    /\ IsCompletionOf(m, r) => evt[r] = "sent"
    /\ IF matches(m, r)
       THEN /\ timer' = [timer EXCEPT ![r] = "cleared"]
            /\ ws' = [ws EXCEPT ![r] = "closed"]
            /\ evt' = [evt EXCEPT ![r] = IF IsCompletionOf(m, r) THEN "delivered" ELSE @]
            /\ calls' = [calls EXCEPT ![r] = @ + 1]
            /\ pc' = [pc EXCEPT ![r] = "awaitHistory"]
            /\ ignored' = [ignored EXCEPT ![r] = FALSE]
       ELSE /\ ignored' = [ignored EXCEPT ![r] = TRUE]
            /\ UNCHANGED <<timer, ws, evt, calls, pc>>
    /\ UNCHANGED <<variant, inp, resp, submits, outcome, wait, job>>
    /\ UNCHANGED fsVars
    /\ UNCHANGED outsideVars

\* A timeout callback that resolves the wait instead of rejecting it: the
\* handler goes on to fetch the image.
OnTimeout_resolves(r, ok) ==
    /\ timer[r] = "armed"
    /\ ok
    /\ timer' = [timer EXCEPT ![r] = "fired"]
    /\ ws' = [ws EXCEPT ![r] = "closed"]
    /\ wait' = [wait EXCEPT ![r] = "completed"]
    /\ calls' = [calls EXCEPT ![r] = @ + 1]
    /\ pc' = [pc EXCEPT ![r] = "awaitImage"]
    /\ UNCHANGED <<variant, inp, resp, outcome, submits, job, evt>>
    /\ ignored' = [ignored EXCEPT ![r] = FALSE]
    /\ UNCHANGED fsVars
    /\ UNCHANGED outsideVars

\* A timeout callback that rejects without closing the channel.
OnTimeout_noClose(r, ok) ==
    /\ timer[r] = "armed"
    /\ timer' = [timer EXCEPT ![r] = "fired"]
    /\ wait' = [wait EXCEPT ![r] = "timed-out"]
    /\ outcome' = [outcome EXCEPT ![r] = "timeout"]
    /\ FailAndCleanup(r, ok)
    /\ UNCHANGED <<variant, inp, created, calls, submits, job, evt, ws>>
    /\ ignored' = [ignored EXCEPT ![r] = FALSE]
    /\ UNCHANGED outsideVars

\* The timeout fires: close the channel, reject; the handler's catch and
\* finally blocks run.
OnTimeout(r, ok) ==
    /\ timer[r] = "armed"
    /\ timer' = [timer EXCEPT ![r] = "fired"]
    /\ ws' = [ws EXCEPT ![r] = "closed"]
    /\ wait' = [wait EXCEPT ![r] = "timed-out"]
    /\ outcome' = [outcome EXCEPT ![r] = "timeout"]
    /\ FailAndCleanup(r, ok)
    /\ UNCHANGED <<variant, inp, created, calls, submits, job, evt>>
    /\ ignored' = [ignored EXCEPT ![r] = FALSE]
    /\ UNCHANGED outsideVars

\* ws.on("error"): clear the timeout and reject; the handler's catch and
\* finally blocks run.  The broken channel is no longer usable.
OnWsError(r, ok) ==
    /\ pc[r] = "listening"
    /\ ws[r] \in {"connecting", "open"}
    /\ timer' = [timer EXCEPT ![r] = "cleared"]
    /\ ws' = [ws EXCEPT ![r] = "failed"]
    /\ wait' = [wait EXCEPT ![r] = "channel-error"]
    /\ outcome' = [outcome EXCEPT ![r] = "wserror"]
    /\ FailAndCleanup(r, ok)
    /\ UNCHANGED <<variant, inp, created, calls, submits, job, evt>>
    /\ ignored' = [ignored EXCEPT ![r] = FALSE]
    /\ UNCHANGED outsideVars

\* The history fetch started by the message handler ends.  A failed fetch or
\* an unparseable body throws inside the handler's try and is swallowed by
\* its catch: the promise is neither resolved nor rejected.  The history lists
\* output images only for a job the backend has executed.
HistoryAnswers == {"unreachable", "malformed", "nooutput", "ok"}

HistoryResponse(r, o, ok) ==
    /\ pc[r] = "awaitHistory"
    /\ o = "ok" => job[r] = "done"
    /\ outcome' = [outcome EXCEPT ![r] = o]
    /\ CASE o \in {"unreachable", "malformed"} ->
              /\ ok
              /\ pc' = [pc EXCEPT ![r] = "hung"]
              /\ UNCHANGED <<resp, wait, calls>>
              /\ UNCHANGED fsVars
         [] o = "nooutput" ->
              /\ wait' = [wait EXCEPT ![r] = "no-output"]
              /\ FailAndCleanup(r, ok)
              /\ UNCHANGED <<created, calls>>
         [] o = "ok" ->
              /\ ok
              /\ wait' = [wait EXCEPT ![r] = "completed"]
              /\ calls' = [calls EXCEPT ![r] = @ + 1]
              /\ pc' = [pc EXCEPT ![r] = "awaitImage"]
              /\ UNCHANGED resp
              /\ UNCHANGED fsVars
    /\ UNCHANGED <<variant, inp, submits, ws, timer, job, evt, ignored>>
    /\ UNCHANGED outsideVars

\* The fetch of the image URL ends.  The handler does not look at the status
\* of the answer: whatever body came back is sent as the image.
ImageResponse(r, o, ok) ==
    /\ pc[r] = "awaitImage"
    /\ o \in {"unreachable", "image"} \cup ErrDetails
    /\ outcome' = [outcome EXCEPT ![r] = o]
    /\ IF o = "unreachable"
       THEN FailAndCleanup(r, ok)
       ELSE /\ resp' = [resp EXCEPT ![r] = ImageComfy(o)]
            /\ Finally(r, ok)
    /\ UNCHANGED <<variant, inp, created, calls, submits, ignored>>
    /\ UNCHANGED waiterVars
    /\ UNCHANGED outsideVars

Next ==
    \/ \E r \in Reqs : \E p \in Pins : PostAuth(r, p)
    \/ \E r \in Reqs : GetHealth(r)
    \/ \E r \in Reqs : \E o \in ProbeAnswers : HealthResponse(r, o)
    \/ \E r \in Reqs : GetRoot(r)
    \/ \E r \in Reqs : \E p \in Pins : \E u \in Uploads : GenerateA1111(r, p, u)
    \/ \E r \in Reqs : \E o \in BackendFailures \cup {"empty", "image"} :
           \E u1, u2 \in BOOLEAN : A1111Response(r, o, u1, u2)
    \/ \E r \in Reqs : \E p \in Pins : \E u \in Uploads : \E renameOk \in BOOLEAN :
           GenerateComfy(r, p, u, renameOk)
    \/ \E r \in Reqs : \E o \in BackendFailures \cup {"accepted"} : \E ok \in BOOLEAN :
           QueueResponse(r, o, ok)
    \/ \E r \in Reqs : WsOpen(r)
    \/ \E r \in Reqs : BackendExecuted(r)
    \/ \E r \in Reqs : \E m \in Messages : OnMessage(r, m)
    \/ \E r \in Reqs : \E ok \in BOOLEAN : OnTimeout(r, ok)
    \/ \E r \in Reqs : \E ok \in BOOLEAN : OnWsError(r, ok)
    \/ \E r \in Reqs : \E o \in HistoryAnswers : \E ok \in BOOLEAN : HistoryResponse(r, o, ok)
    \/ \E r \in Reqs : \E o \in {"unreachable", "image"} \cup ErrDetails : \E ok \in BOOLEAN :
           ImageResponse(r, o, ok)

Spec == Init /\ [][Next]_vars

\* ======================================================= style selection
\* STYLE_PROMPTS of the synchronous REST variant (the texts are abridged).
STYLE_PROMPTS ==
    [anime |-> [positive |-> "anime style, high quality anime artwork, ...",
                negative |-> "photo, realistic, 3d render, ..."],
     cartoon |-> [positive |-> "pixar style, 3d cartoon, disney style, ...",
                  negative |-> "anime, realistic photo, ..., 2d, flat"]]

\* PROMPTS of the graph-job variant (abridged).
PROMPTS ==
    [anime |-> [positive |-> "masterpiece, best quality, anime style, ...",
                negative |-> "lowres, bad anatomy, bad hands, ..., realistic, photo"],
     cartoon |-> [positive |-> "cartoon style, pixar style, 3d render, ...",
                  negative |-> "lowres, bad anatomy, text, ..., realistic, anime"]]

PromptTable(v) == IF v = "a1111" THEN STYLE_PROMPTS ELSE PROMPTS

\* The style field of the multipart body: absent, empty, the two styles, a
\* name that is no style, and a name every JavaScript object inherits.
NoStyle == "undefined"
StyleFields == {NoStyle, "", "anime", "cartoon", "sketch", "constructor"}

\* Members an object literal inherits from Object.prototype (two of them).
ObjectPrototypeKeys == {"constructor", "toString"}

\* table[key] in JavaScript: the own property, else the inherited member (a
\* function), else undefined.
Lookup(table, key) ==
    IF key \in DOMAIN table THEN [kind |-> "pair", pair |-> table[key]]
    ELSE IF key \in ObjectPrototypeKeys THEN [kind |-> "function"]
    ELSE [kind |-> "undefined"]

\* value.positive / value.negative: a function has no such member.
Member(value, name) ==
    IF value.kind = "pair" THEN value.pair[name] ELSE "undefined"

\* const style = req.body.style || "anime";
\* const stylePrompt = STYLE_PROMPTS[style] || STYLE_PROMPTS.anime;
\* and the two prompt texts read from it.
stylePrompt(v, field) ==
    LET st == IF field \in {NoStyle, ""} THEN "anime" ELSE field
        hit == Lookup(PromptTable(v), st)
        chosen == IF hit.kind = "undefined"
                  THEN [kind |-> "pair", pair |-> PromptTable(v).anime]
                  ELSE hit
    IN [positive |-> Member(chosen, "positive"), negative |-> Member(chosen, "negative")]

\* A /generate request with a style field arrives; the handler runs up to the
\* call of the backend, which receives the prompt pair chosen for the style.
SubmitPrompt(p, u, s, renameOk) ==
    /\ greq.ep = "none"
    /\ variant = "a1111" => renameOk
    /\ greq' = [ep |-> "generate", pin |-> p, upload |-> u, style |-> s]
    /\ payload' = IF authMiddleware(p) /\ upload(variant, u) = "stored" /\ renameOk
                  THEN stylePrompt(variant, s)
                  ELSE NoPayload
    /\ gtmp' = (upload(variant, u) = "stored" /\ (variant = "comfy" => authMiddleware(p)))
    /\ UNCHANGED <<gans, gresp, gbytes, gunlinkErr>>
    /\ UNCHANGED <<serverVars, uiVars>>

StyleNext ==
    \E p \in Pins : \E u \in Uploads : \E s \in StyleFields : \E renameOk \in BOOLEAN :
        SubmitPrompt(p, u, s, renameOk)

StyleSpec == Init /\ [][StyleNext]_vars

\* ============================ the img2img answer, synchronous REST variant
\* Longest list of images in an answer of the backend.
MaxImages == 2

\* A base64 text is given by the values (0..63) of its characters.
\* "TWFu" (the bytes 77 97 110), "TWE" (77 97), "QUJD" (65 66 67), and the
\* empty text.
EncodedImages == {<<19, 22, 5, 46>>, <<19, 22, 4>>, <<16, 20, 9, 3>>, <<>>}

\* Buffer.from(text, "base64"): every four characters give three bytes; two
\* or three characters left over give one or two bytes, a single one nothing.
RECURSIVE base64Decode(_)
base64Decode(t) ==
    IF Len(t) < 2 THEN <<>>
    ELSE IF Len(t) = 2 THEN <<t[1] * 4 + t[2] \div 16>>
    ELSE IF Len(t) = 3 THEN <<t[1] * 4 + t[2] \div 16, (t[2] % 16) * 16 + t[3] \div 4>>
    ELSE <<t[1] * 4 + t[2] \div 16, (t[2] % 16) * 16 + t[3] \div 4, (t[3] % 4) * 64 + t[4]>>
             \o base64Decode(SubSeq(t, 5, Len(t)))

ImageLists == UNION {[1..n -> EncodedImages] : n \in 0..MaxImages}

\* What the fetch of /sdapi/v1/img2img can end with: a failure (unreachable
\* backend, non-OK status, unparseable body), or a JSON object with or
\* without an images list.
A1111Answers ==
    {[kind |-> "failure", detail |-> d] : d \in BackendFailures} \cup
    {[kind |-> "json", hasImages |-> FALSE]} \cup
    {[kind |-> "json", hasImages |-> TRUE, images |-> l] : l \in ImageLists}

\* !result.images || result.images.length === 0  (line 113)
noImage(ans) == ~ans.hasImages \/ Len(ans.images) = 0

\* An index that takes the last image of the list.
resultImage_last(images) == images[Len(images)]

\* result.images[0]  (line 118)
resultImage(images) == images[1]

\* The rest of the handler for the request followed on its own, once img2img
\* has answered: lines 102-132, as A1111Response, with the answer's content.
A1111Answer(ans, u1, u2) ==
    /\ variant = "a1111"
    /\ payload # NoPayload
    /\ gans = NoAnswer
    /\ gans' = ans
    /\ LET parsed == ans.kind = "json"
           tmp1 == IF parsed THEN gtmp /\ ~u1 ELSE gtmp
           thrown == ~parsed \/ ~u1 \/ noImage(ans)
           retry == thrown /\ tmp1
           tmp2 == IF retry THEN ~u2 ELSE tmp1
           escaped == retry /\ ~u2
       IN /\ (~parsed => u1) /\ (~retry => u2)
          /\ gtmp' = tmp2
          /\ gunlinkErr' = ((parsed /\ ~u1) \/ (retry /\ ~u2))
          /\ IF escaped
             THEN /\ gresp' \in UncaughtResponses
                  /\ gbytes' = <<>>
             ELSE IF thrown
             THEN /\ gresp' = GenericFailure(variant)
                  /\ gbytes' = <<>>
             ELSE /\ gresp' = ImageA1111("image")
                  /\ gbytes' = base64Decode(resultImage(ans.images))
    /\ UNCHANGED <<greq, payload>>
    /\ UNCHANGED <<serverVars, uiVars>>

AnswerNext ==
    \/ StyleNext
    \/ \E ans \in A1111Answers : \E u1, u2 \in BOOLEAN : A1111Answer(ans, u1, u2)

AnswerSpec == Init /\ [][AnswerNext]_vars

\* The steps of request r after its arrival.  Node's event loop runs every
\* callback that is ready (an answered fetch, a channel event, an expired
\* timer), so each request's enabled continuation is eventually taken.
Step(r) ==
    \/ \E o \in ProbeAnswers : HealthResponse(r, o)
    \/ \E o \in BackendFailures \cup {"empty", "image"} :
           \E u1, u2 \in BOOLEAN : A1111Response(r, o, u1, u2)
    \/ \E o \in BackendFailures \cup {"accepted"} : \E ok \in BOOLEAN : QueueResponse(r, o, ok)
    \/ WsOpen(r)
    \/ BackendExecuted(r)
    \/ \E m \in Messages : OnMessage(r, m)
    \/ \E ok \in BOOLEAN : OnTimeout(r, ok)
    \/ \E ok \in BOOLEAN : OnWsError(r, ok)
    \/ \E o \in HistoryAnswers : \E ok \in BOOLEAN : HistoryResponse(r, o, ok)
    \/ \E o \in {"unreachable", "image"} \cup ErrDetails : \E ok \in BOOLEAN :
           ImageResponse(r, o, ok)

FairSpec == Spec /\ \A r \in Reqs : WF_vars(Step(r))

\* ===================================================== the browser client
\* PhotoTransformer (part_000:21-329).  Each action is one event handler run,
\* or the continuation of an async handler after its await; the state updates
\* of one run are applied together.  The server is seen through its answers.
TypedPins == {"", FAMILY_PIN, "0000"}
LocalFiles == {"photo.jpg", "notes.txt"}
FileType(f) == IF f = "photo.jpg" THEN "image" ELSE "text"
Styles == {"anime", "cartoon"}

\* URL.createObjectURL: a URL naming the object.
createObjectURL(x) ==
    CASE x = "photo.jpg" -> "blob:photo.jpg"
      [] x = "notes.txt" -> "blob:notes.txt"
      [] x = "image" -> "blob:image"

\* Removal of the i-th element of a sequence.
RemoveAt(seq, i) == SubSeq(seq, 1, i - 1) \o SubSeq(seq, i + 1, Len(seq))

\* Which screen the component renders (part_000:129, 169, 184, 217).
Screen ==
    IF step = "auth" THEN "auth"
    ELSE IF step = "generating" THEN "generating"
    ELSE IF step = "result" /\ resultUrl # Null THEN "result"
    ELSE "upload"

\* onChange of the PIN input.
SetPin(v) ==
    /\ Screen = "auth"
    /\ pin' = v
    /\ UNCHANGED <<step, pinError, selectedFile, preview, style, resultUrl, isLoading,
                   error, authReqs, genReqs>>
    /\ UNCHANGED acceptedPins
    /\ UNCHANGED <<serverVars, styleVars>>

\* handleAuth up to its await (button click or Enter in the input; neither
\* is disabled while a call is unanswered): POST /auth with the current pin.
HandleAuth ==
    /\ Screen = "auth"
    /\ Len(authReqs) < MaxAuthInFlight
    /\ authReqs' = Append(authReqs, pin)
    /\ UNCHANGED <<step, pin, pinError, selectedFile, preview, style, resultUrl,
                   isLoading, error, genReqs>>
    /\ UNCHANGED acceptedPins
    /\ UNCHANGED <<serverVars, styleVars>>

\* handleAuth after its await, for the i-th unanswered call: the fetch threw
\* (~net), or the server answered, OK exactly for the configured PIN.
AuthResponse(i, net) ==
    /\ i \in 1..Len(authReqs)
    /\ authReqs' = RemoveAt(authReqs, i)
    /\ IF net /\ authMiddleware(authReqs[i])
       THEN /\ step' = "upload" /\ pinError' = ""
            /\ acceptedPins' = acceptedPins \cup {authReqs[i]}
       ELSE /\ pinError' = IF net THEN "Wrong PIN" ELSE "Cannot connect to server"
            /\ UNCHANGED <<step, acceptedPins>>
    /\ UNCHANGED <<pin, selectedFile, preview, style, resultUrl, isLoading, error, genReqs>>
    /\ UNCHANGED <<serverVars, styleVars>>

\* handleFileChange: the file input, shown while there is no preview.
HandleFileChange(f) ==
    /\ Screen = "upload"
    /\ preview = Null
    /\ selectedFile' = f
    /\ preview' = createObjectURL(f)
    /\ error' = Null
    /\ UNCHANGED <<step, pin, pinError, style, resultUrl, isLoading, authReqs, genReqs>>
    /\ UNCHANGED acceptedPins
    /\ UNCHANGED <<serverVars, styleVars>>

\* handleDrop: as handleFileChange, for files whose type starts with image/.
HandleDrop(f) ==
    /\ Screen = "upload"
    /\ preview = Null
    /\ FileType(f) = "image"
    /\ selectedFile' = f
    /\ preview' = createObjectURL(f)
    /\ error' = Null
    /\ UNCHANGED <<step, pin, pinError, style, resultUrl, isLoading, authReqs, genReqs>>
    /\ UNCHANGED acceptedPins
    /\ UNCHANGED <<serverVars, styleVars>>

\* The X button over the preview.
ClearFile ==
    /\ Screen = "upload"
    /\ preview # Null
    /\ selectedFile' = Null
    /\ preview' = Null
    /\ UNCHANGED <<step, pin, pinError, style, resultUrl, isLoading, error, authReqs, genReqs>>
    /\ UNCHANGED acceptedPins
    /\ UNCHANGED <<serverVars, styleVars>>

\* The two style buttons.
SetStyle(s) ==
    /\ Screen = "upload"
    /\ style' = s
    /\ UNCHANGED <<step, pin, pinError, selectedFile, preview, resultUrl, isLoading,
                   error, authReqs, genReqs>>
    /\ UNCHANGED acceptedPins
    /\ UNCHANGED <<serverVars, styleVars>>

\* A Transform button that is disabled only while no file is selected.
TransformEnabled_fileOnly == selectedFile # Null

\* The Transform button: disabled={!selectedFile || isLoading}.
TransformEnabled == selectedFile # Null /\ ~isLoading

\* handleGenerate up to its await: POST /generate with the file, the style
\* and the current pin in the header.
HandleGenerate ==
    /\ Screen = "upload"
    /\ TransformEnabled
    /\ selectedFile # Null
    /\ Len(genReqs) < MaxGenInFlight
    /\ isLoading' = TRUE
    /\ step' = "generating"
    /\ error' = Null
    /\ genReqs' = Append(genReqs, [pin |-> pin, file |-> selectedFile, style |-> style])
    /\ UNCHANGED <<pin, pinError, selectedFile, preview, style, resultUrl, authReqs>>
    /\ UNCHANGED acceptedPins
    /\ UNCHANGED <<serverVars, styleVars>>

\* What the client sees of a /generate call: an OK answer with a body, a
\* non-OK answer, or a fetch that throws.  The server answers OK only to the
\* configured PIN.
GenerateAnswers == {"image", "not-ok", "network"}

\* A catch block that also drops the selected file and its preview.
GenerateResponse_clears(i, o) ==
    /\ i \in 1..Len(genReqs)
    /\ o = "image" => authMiddleware(genReqs[i].pin)
    /\ genReqs' = RemoveAt(genReqs, i)
    /\ IF o = "image"
       THEN /\ resultUrl' = createObjectURL("image")
            /\ step' = "result"
            /\ UNCHANGED <<error, selectedFile, preview>>
       ELSE /\ error' = "Failed to generate. Please try again."
            /\ step' = "upload"
            /\ selectedFile' = Null
            /\ preview' = Null
            /\ UNCHANGED resultUrl
    /\ isLoading' = FALSE
    /\ UNCHANGED <<pin, pinError, style, authReqs>>
    /\ UNCHANGED acceptedPins
    /\ UNCHANGED <<serverVars, styleVars>>

\* handleGenerate after its await, for the i-th unanswered call.
GenerateResponse(i, o) ==
    /\ i \in 1..Len(genReqs)
    /\ o = "image" => authMiddleware(genReqs[i].pin)
    /\ genReqs' = RemoveAt(genReqs, i)
    /\ IF o = "image"
       THEN /\ resultUrl' = createObjectURL("image")
            /\ step' = "result"
            /\ UNCHANGED error
       ELSE /\ error' = "Failed to generate. Please try again."
            /\ step' = "upload"
            /\ UNCHANGED resultUrl
    /\ isLoading' = FALSE
    /\ UNCHANGED <<pin, pinError, selectedFile, preview, style, authReqs>>
    /\ UNCHANGED acceptedPins
    /\ UNCHANGED <<serverVars, styleVars>>

\* handleReset: the "New photo" button of the result screen.
HandleReset ==
    /\ Screen = "result"
    /\ selectedFile' = Null
    /\ preview' = Null
    /\ resultUrl' = Null
    /\ step' = "upload"
    /\ error' = Null
    /\ UNCHANGED <<pin, pinError, style, isLoading, authReqs, genReqs>>
    /\ UNCHANGED acceptedPins
    /\ UNCHANGED <<serverVars, styleVars>>

UINext ==
    \/ \E v \in TypedPins : SetPin(v)
    \/ HandleAuth
    \/ \E i \in 1..MaxAuthInFlight : \E net \in BOOLEAN : AuthResponse(i, net)
    \/ \E f \in LocalFiles : HandleFileChange(f)
    \/ \E f \in LocalFiles : HandleDrop(f)
    \/ ClearFile
    \/ \E s \in Styles : SetStyle(s)
    \/ HandleGenerate
    \/ \E i \in 1..MaxGenInFlight : \E o \in GenerateAnswers : GenerateResponse(i, o)
    \/ HandleReset

UISpec == Init /\ [][UINext]_vars

\* =================================================================== claims
IsAuth(r) == inp[r].ep = "auth"
IsGenerate(r) == inp[r].ep = "generate"
Answered(r) == resp[r].status # 0
Returned(r) == pc[r] \in {"done", "crashed"}
TempFiles(r) == {TmpPath(r), ExtPath(r)} \cap files
CarriesImage(r) == inp[r].upload.present /\ inp[r].upload.mime.type = "image"
Oversize(r) == inp[r].upload.present /\ inp[r].upload.size > FileSizeLimitMB
GenerationFailures == BackendFailures \cup {"empty", "timeout", "wserror", "nooutput"}

\* C1: every call (POST /auth or POST /generate) that presents a PIN other
\* than the configured one, or none, is answered 401, and no request to the
\* inference backend is made for it.
C1_WrongPinIs401 ==
    \A r \in Reqs :
        (inp[r].ep \in {"auth", "generate"} /\ inp[r].pin # FAMILY_PIN)
            => (resp[r].status = 401 /\ calls[r] = 0)

\* C2: an authenticated /generate request that carries an image has exactly
\* one temp file created, and once it has been answered after a success, a
\* backend error, a malformed or empty backend answer or a job timeout, no
\* temp file of the request exists any more (the file system having carried
\* out the deletions it was asked for).
C2_TempFileGoneAfterResponse ==
    \A r \in Reqs :
        (/\ IsGenerate(r) /\ authMiddleware(inp[r].pin)
         /\ CarriesImage(r) /\ ~Oversize(r)
         /\ Answered(r) /\ outcome[r] # "none" /\ ~unlinkErr[r])
            => (created[r] = 1 /\ unlinked[r] = 1 /\ TempFiles(r) = {})

C2_Witness ==
    \E r, q \in Reqs :
        /\ IsGenerate(r) /\ resp[r].status = 200 /\ resp[r].body = "image"
        /\ created[r] = 1 /\ TempFiles(r) = {}
        /\ IsGenerate(q) /\ outcome[q] \in GenerationFailures
        /\ resp[q].status = 500 /\ created[q] = 1 /\ TempFiles(q) = {}

\* C3: once the handler of a request has returned, whatever its exit path,
\* every temp file created for the request has been deleted exactly once and
\* none remains on disk.
C3_EveryExitDeletes ==
    \A r \in Reqs :
        (Returned(r) /\ ~unlinkErr[r])
            => (unlinked[r] = created[r] /\ TempFiles(r) = {})

\* C4: every wait of the Job Waiter eventually ends in one of its outcomes
\* (a completed job without a recorded image ends it as a failure), and the
\* request is then answered.
WaitEnded == {"completed", "timed-out", "channel-error", "no-output"}

C4_WaitEnds ==
    \A r \in Reqs : (wait[r] = "pending") ~> (wait[r] \in WaitEnded /\ Answered(r))

\* C5: when the timeout fires, which it does only while no completion
\* notification of the submitted job has been received, the wait has failed
\* with the timeout error, the channel is closed, the client has been sent
\* 500 with the generic failure message, and the temp file is removed (unless
\* the deletion itself failed).
C5_Timeout ==
    \A r \in Reqs :
        timer[r] = "fired"
            => /\ wait[r] = "timed-out"
               /\ evt[r] # "delivered"
               /\ ws[r] = "closed"
               /\ resp[r].status = 500 /\ resp[r].body = "Generation failed"
               /\ (~unlinkErr[r] => TempFiles(r) = {})

C5_Witness ==
    \E r \in Reqs :
        /\ timer[r] = "fired" /\ job[r] = "done" /\ evt[r] = "lost"
        /\ resp[r].status = 500 /\ created[r] = 1 /\ TempFiles(r) = {}

\* C6: while the Job Waiter listens, a message that does not parse, lacks the
\* expected fields, is of another type or names another job changes nothing:
\* the wait stays pending, the channel open, the timeout armed, and neither
\* the response nor the temp files are touched.
Unrelated(m, r) ==
    \/ ~m.parses
    \/ ~m.hasData
    \/ m.type # "executed"
    \/ m.prompt_id # r

C6_NoiseIgnored ==
    [][\A r \in Reqs : \A m \in Messages :
          (OnMessage(r, m) /\ Unrelated(m, r))
              => /\ wait'[r] = "pending" /\ ws'[r] = "open" /\ timer'[r] = "armed"
                 /\ UNCHANGED <<pc, resp, files, wait, ws, timer, calls, outcome>>]_vars

C6_Witness ==
    \E r \in Reqs :
        /\ ignored[r]
        /\ wait[r] = "pending" /\ ws[r] = "open" /\ timer[r] = "armed"

\* C7: a /generate request whose upload is not of type image/* is rejected,
\* and no call to the inference backend is made for it.
C7_NonImageRejected ==
    \A r \in Reqs :
        (IsGenerate(r) /\ inp[r].upload.present /\ inp[r].upload.mime.type # "image")
            => (calls[r] = 0 /\ (Returned(r) => resp[r].status \in {400, 401, 500}))

\* C8: an authenticated /generate with no file, a non-image file or an
\* oversize file is answered 400; one whose backend was unreachable, reported
\* an error, answered malformed or timed out is answered 500.
C8_StatusTaxonomy ==
    \A r \in Reqs :
        (IsGenerate(r) /\ authMiddleware(inp[r].pin) /\ pc[r] = "done")
            => /\ (~CarriesImage(r) \/ Oversize(r)) => resp[r].status = 400
               /\ (CarriesImage(r) /\ ~Oversize(r) /\ outcome[r] \in GenerationFailures)
                      => resp[r].status = 500

\* C9: two /generate requests that differ only in the error detail the
\* backend produced at the same point of the exchange receive the same body.
SameButDetail(r, q) ==
    /\ IsGenerate(r) /\ IsGenerate(q)
    /\ inp[r] = inp[q]
    /\ pc[r] = "done" /\ pc[q] = "done"
    /\ calls[r] = calls[q] /\ wait[r] = wait[q]
    /\ ~unlinkErr[r] /\ ~unlinkErr[q]
    /\ outcome[r] \in ErrDetails \cup {"unreachable"}
    /\ outcome[q] \in ErrDetails \cup {"unreachable"}

C9_BodyIndependentOfDetail ==
    \A r, q \in Reqs : SameButDetail(r, q) => resp[r].body = resp[q].body

\* C10: when a deletion of the temp file has failed, the handler still
\* returns normally and the response is the one of the generation: the image
\* with 200 if the backend produced one, the generic failure otherwise.
C10_CleanupFailureHarmless ==
    \A r \in Reqs :
        (unlinkErr[r] /\ pc[r] # "hung")
            => /\ pc[r] = "done"
               /\ outcome[r] = "image" => (resp[r].status = 200 /\ resp[r].body = "image")
               /\ outcome[r] \in GenerationFailures => resp[r] = GenericFailure(variant)

\* C11: the prompt pair sent to the backend depends on the style field only:
\* the cartoon pair for "cartoon", the anime pair for every other value.
C11_PromptPairOfStyle ==
    payload # NoPayload
        => payload = IF greq.style = "cartoon" THEN PromptTable(variant).cartoon
                     ELSE PromptTable(variant).anime

\* C12: a successful conversion is answered 200 with Content-Type image/png
\* and a Cache-Control value containing no-store, and no 200 is sent for a
\* /generate request for which no image was produced.
ForbidsCaching(r) == resp[r].cache = "no-store, no-cache, must-revalidate"

C12_SuccessIsUncachedPng ==
    \A r \in Reqs :
        (IsGenerate(r) /\ resp[r].status = 200)
            => /\ resp[r].ctype = "image/png"
               /\ ForbidsCaching(r)
               /\ outcome[r] = "image"

\* C13: no retry: each request submits at most one job, and as soon as a
\* backend call of a request has failed the request has its failure response,
\* with no further submission.  (Runs in which a deletion of the temp file
\* fails are left aside: they are the subject of C10.)
C13_NoRetry ==
    \A r \in Reqs :
        IsGenerate(r) =>
            /\ submits[r] <= 1
            /\ (outcome[r] \in GenerationFailures /\ ~unlinkErr[r])
                   => resp[r] = GenericFailure(variant)

\* C16: each waiting request has a channel of its own, and once its wait has
\* ended (completion, timeout or channel error) or the request is answered,
\* that channel is no longer open.
ChannelLive(r) == ws[r] \in {"connecting", "open"}

C17_PinCheckedPerRequest ==
    \A r \in Reqs :
        /\ (IsAuth(r) /\ inp[r].pin = FAMILY_PIN) => resp[r].status = 200
        /\ (IsGenerate(r) /\ inp[r].pin = FAMILY_PIN) => resp[r].status # 401
        /\ (IsGenerate(r) /\ inp[r].pin # FAMILY_PIN)
               => (calls[r] = 0 /\ resp[r].status \in {401, 500})

C17_Witness ==
    /\ IsAuth(1) /\ resp[1].status = 200
    /\ IsGenerate(2) /\ inp[2].pin # FAMILY_PIN /\ resp[2].status = 401

\* C18: GET /health is always answered, needs no PIN, and reports the
\* backend's reachability: 200 "ok" when the probe of the backend succeeded,
\* 503 "error" when it did not.
IsHealth(r) == inp[r].ep = "health"

C18_HealthReportsBackend ==
    \A r \in Reqs :
        (IsHealth(r) /\ pc[r] = "done")
            => \/ outcome[r] = "up" /\ resp[r].status = 200
               \/ outcome[r] \in ProbeAnswers \ {"up"} /\ resp[r].status = 503

\* C19: the completion channel is listening whenever the completion event of
\* a job can be emitted: no request that is still waiting has missed the
\* completion event of its job.
C19_CompletionNeverMissed ==
    \A r \in Reqs : wait[r] = "pending" => evt[r] # "lost"

C14_Allowed ==
    \/ step = "auth" /\ step' = "upload"
    \/ step = "upload" /\ step' = "generating" /\ selectedFile # Null
    \/ step = "generating" /\ step' = "result" /\ resultUrl' # Null
    \/ step = "generating" /\ step' = "upload" /\ error' # Null
    \/ step = "result" /\ step' = "upload"

C14_StepTransitions == [][step' # step => C14_Allowed]_vars

\* C15: the client never has more than one /generate call unanswered.
C15_OneGenerationInFlight == Len(genReqs) <= 1

C15_Witness ==
    /\ Len(genReqs) = 1
    /\ Screen = "upload"
    /\ selectedFile # Null

\* C21: in the synchronous REST variant, when no deletion of the temp file
\* fails, an answer of the backend with an empty or missing image list is
\* answered 500 with the temp file removed, and any other parsed answer is
\* answered with the bytes that the first image of its list decodes to.
C21_FirstImageOrFailure ==
    (variant = "a1111" /\ gans.kind = "json" /\ ~gunlinkErr)
        => IF ~gans.hasImages \/ gans.images = <<>>
           THEN gresp = GenericFailure(variant) /\ ~gtmp /\ gbytes = <<>>
           ELSE /\ gresp.status = 200
                /\ gbytes = base64Decode(Head(gans.images))
                /\ ~gtmp

C21_Witness ==
    /\ gans.kind = "json" /\ gans.hasImages /\ ~gunlinkErr
    /\ Len(gans.images) = 2
    /\ gans.images[1] # gans.images[2]
    /\ gbytes = <<77, 97, 110>>

\* C22: the step in which a generation fails changes only the step (to
\* upload), the loading flag (to false) and the error message (to a message):
\* the selected file, its preview, the style and the PIN are as before, and
\* with the file still selected the Transform button is shown and enabled.
C22_FailureKeepsSelection ==
    [][\A i \in 1..MaxGenInFlight : \A o \in GenerateAnswers \ {"image"} :
          GenerateResponse(i, o)
              => /\ UNCHANGED <<selectedFile, preview, style, pin, pinError, resultUrl>>
                 /\ step' = "upload" /\ ~isLoading' /\ error' # Null
                 /\ selectedFile # Null => (Screen' = "upload" /\ TransformEnabled')]_vars

C22_Witness ==
    /\ step = "upload" /\ error # Null /\ ~isLoading /\ genReqs = <<>>
    /\ selectedFile = "photo.jpg" /\ preview = "blob:photo.jpg"
    /\ style = "cartoon" /\ pin = FAMILY_PIN

\* C23: in every state of the client, the step is "result" only if a result
\* URL is set, the step is other than "auth" only if some /auth call was
\* answered OK, and the PIN of every /generate call is a PIN value that /auth
\* has accepted.
C23_ClientInvariant ==
    /\ step = "result" => resultUrl # Null
    /\ step # "auth" => acceptedPins # {}
    /\ \A i \in 1..Len(genReqs) : genReqs[i].pin \in acceptedPins
====
